---- MODULE Spec2Model ----
(***************************************************************************)
(* Model of the rster type descriptors (src/src/shared/types.ts) and of    *)
(* RsterApiMethod (src/packages/builder/src/method.ts): its constructor    *)
(* and its two dispatch fronts, rest() and native().                       *)
(*                                                                         *)
(* Spec follows one invocation of either front, SpecConcurrent several     *)
(* interleaved invocations of rest(), SpecConstruct the constructor, and   *)
(* SpecTypes a descriptor's check and sendableVia.                         *)
(***************************************************************************)
EXTENDS Integers, Sequences, FiniteSets, TLC

(***************************************************************************)
(* JavaScript values.  A value is a record whose first field, kind, is its *)
(* dynamic kind; val is its payload.  An object's payload is a record from *)
(* property names to values, an array's payload is a sequence of values.   *)
(***************************************************************************)
Undefined == [kind |-> "undefined"]
Null == [kind |-> "null"]
Str(s) == [kind |-> "string", val |-> s]
Num(n) == [kind |-> "number", val |-> n]
Bool(b) == [kind |-> "boolean", val |-> b]
Arr(items) == [kind |-> "array", val |-> items]
Obj(props) == [kind |-> "object", val |-> props]

\* typeof: null and arrays are "object".
typeof(value) ==
    IF value.kind \in {"null", "array"} THEN "object" ELSE value.kind

\* Array.isArray
isArray(value) == value.kind = "array"

\* value[key] for a property name key: a property an object does not hold,
\* and every named property of an array or of a primitive, reads undefined.
\* On null and undefined the read raises a TypeError (GetThrows).
GetThrows(value) == value.kind \in {"null", "undefined"}

Get(value, key) ==
    IF value.kind = "object" /\ key \in DOMAIN value.val
    THEN value.val[key]
    ELSE Undefined

(***************************************************************************)
(* Type descriptors: one record per TypeInformation subclass, kind naming  *)
(* the class and the other fields named as the class's fields.             *)
(***************************************************************************)
\* minItems / maxItems left out of the ArrayTypeInformation options
Absent == -1

StringTypeInformation(value) == [kind |-> "string", value |-> value]
NumberTypeInformation(value) == [kind |-> "number", value |-> value]
NumberRangeTypeInformation(min, max) ==
    [kind |-> "numberRange", max |-> max, min |-> min]
Or(value0, value1) == [kind |-> "or", value0 |-> value0, value1 |-> value1]
\* properties: the sequence of Object.keys(properties), each with its entry
ObjectTypeInformation(properties) ==
    [kind |-> "object", properties |-> properties]
ArrayTypeInformation(values, minItems, maxItems) ==
    [kind |-> "array", maxItems |-> maxItems, minItems |-> minItems,
     values |-> values]
BooleanTypeInformation(value) == [kind |-> "boolean", value |-> value]
NullTypeInformation == [kind |-> "null"]
UndefinedTypeInformation == [kind |-> "undefinedType"]
AnyStringTypeInformation == [kind |-> "anyString"]
AnyNumberTypeInformation == [kind |-> "anyNumber"]
AnyBooleanTypeInformation == [kind |-> "anyBoolean"]
AnyTypeInformation == [kind |-> "any"]

\* One entry of a field map: Object.entries gives them in declaration order.
Field(key, required, type) ==
    [key |-> key, required |-> required, type |-> type]

\* includes with max left out of the range
includesBelowMax(type, value) == value >= type.min /\ value < type.max

\* NumberRangeTypeInformation.includes
includes(type, value) == value >= type.min /\ value <= type.max

(***************************************************************************)
(* check.  checkEval gives "true", "false", or "TypeError" when the        *)
(* evaluation raises (a property read on null).  && and ||, every and some *)
(* evaluate left to right and stop at the first deciding operand.          *)
(***************************************************************************)
\* a boolean as an evaluation's result
B(b) == IF b THEN "true" ELSE "false"

RECURSIVE checkEval(_, _)
RECURSIVE everyProperty(_, _, _)
RECURSIVE everyItem(_, _, _)
RECURSIVE someType(_, _, _)

\* everyProperty with every present value handed to its type's check, an
\* absent one accepted unless its property is required
everyPropertyChecksPresent(type, value, i) ==
    IF i > Len(type.properties) THEN "true"
    ELSE LET property == type.properties[i] IN
         IF GetThrows(value) THEN "TypeError"
         ELSE LET r == IF Get(value, property.key).kind = "undefined"
                       THEN B(~property.required)
                       ELSE checkEval(property.type, Get(value, property.key))
              IN  IF r = "true" THEN everyProperty(type, value, i + 1) ELSE r

\* Object.keys(this.properties).every(...) from the i-th key on
everyProperty(type, value, i) ==
    IF i > Len(type.properties) THEN "true"
    ELSE LET property == type.properties[i] IN
         IF GetThrows(value) THEN "TypeError"
         ELSE LET r == IF property.required /\ Get(value, property.key).kind # "undefined"
                       THEN "true"
                       ELSE checkEval(property.type, Get(value, property.key))
              IN  IF r = "true" THEN everyProperty(type, value, i + 1) ELSE r

\* this.values.some((t) => t.check(v)) from the j-th element descriptor on
someType(type, v, j) ==
    IF j > Len(type.values) THEN "false"
    ELSE LET r == checkEval(type.values[j], v) IN
         IF r = "false" THEN someType(type, v, j + 1) ELSE r

\* value.every((v) => ...) from the i-th item on
everyItem(type, value, i) ==
    IF i > Len(value.val) THEN "true"
    ELSE LET r == someType(type, value.val[i], 1) IN
         IF r = "true" THEN everyItem(type, value, i + 1) ELSE r

\* ObjectTypeInformation.check
checkObject(type, value) ==
    IF typeof(value) # "object" THEN "false"
    ELSE everyProperty(type, value, 1)

\* ArrayTypeInformation.check
checkArray(type, value) ==
    IF ~isArray(value) THEN "false"
    ELSE IF ~(Len(value.val) >= (IF type.minItems = Absent THEN 0 ELSE type.minItems))
    THEN "false"
    ELSE IF ~(type.maxItems = Absent \/ Len(value.val) <= type.maxItems)
    THEN "false"
    ELSE everyItem(type, value, 1)

checkEval(type, value) ==
    CASE type.kind = "string" ->
           B(typeof(value) = "string" /\ value.val = type.value)
      [] type.kind = "number" ->
           B(typeof(value) = "number" /\ value.val = type.value)
      [] type.kind = "numberRange" ->
           B(typeof(value) = "number" /\ includes(type, value.val))
      [] type.kind = "or" ->
           LET r == checkEval(type.value0, value) IN
           IF r = "false" THEN checkEval(type.value1, value) ELSE r
      [] type.kind = "object" -> checkObject(type, value)
      [] type.kind = "array" -> checkArray(type, value)
      [] type.kind = "boolean" ->
           B(typeof(value) = "boolean" /\ value.val = type.value)
      [] type.kind = "null" -> B(value.kind = "null")
      [] type.kind = "undefinedType" -> B(value.kind = "undefined")
      [] type.kind = "anyString" -> B(typeof(value) = "string")
      [] type.kind = "anyNumber" -> B(typeof(value) = "number")
      [] type.kind = "anyBoolean" -> B(typeof(value) = "boolean")
      [] type.kind = "any" -> "true"

\* type.check(value) returned true / raised
check(type, value) == checkEval(type, value) = "true"
checkThrows(type, value) == checkEval(type, value) = "TypeError"

(***************************************************************************)
(* sendableVia: the channels a descriptor reports, as the array the getter *)
(* returns.  The code's name for the path channel is "param".              *)
(***************************************************************************)
RECURSIVE sendableVia(_)

\* sendableVia with a union reporting its first alternative only
sendableViaFirstAlternative(type) ==
    CASE type.kind \in {"string", "anyString"} -> <<"param", "body", "query">>
      [] type.kind = "or" -> sendableVia(type.value0)
      [] OTHER -> <<"body">>

sendableVia(type) ==
    CASE type.kind = "string" -> <<"param", "body", "query">>
      [] type.kind = "number" -> <<"body">>
      [] type.kind = "numberRange" -> <<"body">>
      [] type.kind = "or" ->
           (<<>> \o sendableVia(type.value0)) \o sendableVia(type.value1)
      [] type.kind = "object" -> <<"body">>
      [] type.kind = "array" -> <<"body">>
      [] type.kind = "boolean" -> <<"body">>
      [] type.kind = "null" -> <<"body">>
      [] type.kind = "undefinedType" -> <<"body">>
      [] type.kind = "anyString" -> <<"param", "body", "query">>
      [] type.kind = "anyNumber" -> <<"body">>
      [] type.kind = "anyBoolean" -> <<"body">>
      [] type.kind = "any" -> <<"body">>

\* string(): the literal descriptor for a given value, any-string otherwise
string(value) ==
    IF value.kind = "string" THEN StringTypeInformation(value.val)
    ELSE AnyStringTypeInformation

RECURSIVE objectProperties(_, _)
\* the reduce of object(): every entry becomes required: true
objectProperties(properties, i) ==
    IF i > Len(properties) THEN <<>>
    ELSE <<Field(properties[i].key, TRUE, properties[i].type)>>
             \o objectProperties(properties, i + 1)

\* object(properties): an entry is a descriptor or {required, type}; the
\* model passes every entry as {required, type}
object(properties) == ObjectTypeInformation(objectProperties(properties, 1))


(***************************************************************************)
(* The operation: one RsterApiMethod with its declaration and its optional *)
(* action, and the invocations of its two dispatch fronts.                 *)
(***************************************************************************)
\* invocations the model has room for; Init starts the first one, the others
\* stay unused
NumInvocations == 2
Invocations == 1..NumInvocations

\* property names of the inbound objects
Names == {"a", "b"}

VARIABLES
    declaration,  \* this.declaration: expectBody, expectQuery, expectParams, returns
    hasAction,    \* whether this.action is defined
    front,        \* per invocation: "rest", "native", or "none" (not followed)
    inbound,      \* per invocation: the inbound objects as they arrived
    req,          \* per invocation: req.body, req.query, req.params as they are now
    pc,           \* per invocation: "start", "awaiting", "resumed", "done"
    scanned,      \* per invocation: the <<channel, key>> of each loop iteration run
    written,      \* per invocation: <<channel, key, value>> of each params[key] = value run
    calls,        \* per invocation: how many times the action was called
    handlerArgs,  \* per invocation: the object the action received
    result,       \* per invocation: what the awaited action resolved to
    responses,    \* per invocation: the responses sent through res, in order
    outcome,      \* per invocation: the error raised or the value returned, or None
    descriptor,   \* a type descriptor under test
    subject,      \* the value handed to its check
    verdict,      \* "pending", or what check gave: "true", "false", "TypeError"
    sendable,     \* Pending, or what the descriptor's sendableVia gave
    name,         \* this.name
    pathArg,      \* the httpPath argument of the constructor, or undefined
    httpPath      \* this.httpPath, Pending until the constructor has run

vars == <<declaration, hasAction, front, inbound, req, pc, scanned, written,
          calls, handlerArgs, result, responses, outcome,
          descriptor, subject, verdict, sendable, name, pathArg, httpPath>>

None == [kind |-> "none"]

\* $400(message): a status-400 error; the message templates of rest() and
\* native() are kept as the words they are made of
MissingError(channel, key) ==
    [kind |-> "error", status |-> 400,
     message |-> <<"Missing", channel, "parameter", key>>]
InvalidError(channel, key) ==
    [kind |-> "error", status |-> 400,
     message |-> <<"Invalid", channel, "parameter", key>>]
\* rest(), path loop: `Invalid param ${key}`
InvalidParamError(key) ==
    [kind |-> "error", status |-> 400, message |-> <<"Invalid", "param", key>>]
\* new Error("No action defined")
NoActionError ==
    [kind |-> "error", status |-> 0, message |-> <<"No action defined">>]
\* a TypeError raised inside check
TypeErrorRaised ==
    [kind |-> "error", status |-> 0, message |-> <<"TypeError">>]
\* an error the action itself raised
ActionError ==
    [kind |-> "error", status |-> 0, message |-> <<"action failed">>]

(***************************************************************************)
(* The constructor: this.httpPath is the httpPath argument when that is    *)
(* truthy, and is derived from the name and the keys of expectParams       *)
(* otherwise.                                                              *)
(***************************************************************************)
\* a variable that has not been given its value yet
Pending == [kind |-> "pending"]

\* !value, for a string or undefined
falsy(value) == value.kind = "undefined" \/ value.val = ""

RECURSIVE join(_, _)
\* Object.keys(expectParams).map((it) => `:${it}`).join("/") from the k-th key
join(entries, k) ==
    IF k > Len(entries) THEN ""
    ELSE (":" \o entries[k].key)
           \o (IF k < Len(entries) THEN "/" ELSE "")
           \o join(entries, k + 1)

\* constructor with the placeholders left out of the derived path
constructorWithoutPlaceholders(n, decl, arg) ==
    IF falsy(arg) THEN "/" \o n ELSE arg.val

\* the httpPath the constructor leaves in this.httpPath
constructor(n, decl, arg) ==
    IF falsy(arg)
    THEN LET params == join(decl.expectParams, 1) IN
         ("/" \o n) \o (IF params # "" THEN "/" \o params ELSE "")
    ELSE arg.val

(***************************************************************************)
(* rest(): the three validation loops of the action callback.  The state   *)
(* of a run is st: params (the object `const params = req.params` names,   *)
(* which is req.params itself), error (the $400 raised, or None), and the  *)
(* iterations and writes done so far.  body and query are only read.       *)
(***************************************************************************)
StartState(params) ==
    [params |-> params, error |-> None, scanned |-> <<>>, written |-> <<>>]

\* what one loop iteration does once req.<channel>[key] has been read as value:
\* continue, throw, or params[key] = value
RestIteration(st, channel, entry, value, invalid) ==
    LET st1 == [st EXCEPT !.scanned = Append(@, <<channel, entry.key>>)] IN
    IF ~entry.required /\ value.kind = "undefined" THEN st1
    ELSE IF value.kind = "undefined"
    THEN [st1 EXCEPT !.error = MissingError(channel, entry.key)]
    ELSE IF checkThrows(entry.type, value)
    THEN [st1 EXCEPT !.error = TypeErrorRaised]
    ELSE IF ~check(entry.type, value)
    THEN [st1 EXCEPT !.error = invalid]
    ELSE [st1 EXCEPT !.params[entry.key] = value,
                     !.written = Append(@, <<channel, entry.key, value>>)]

RECURSIVE RestBodyLoop(_, _, _, _)
\* for (const [key, value] of Object.entries(declaration.expectBody))
RestBodyLoop(st, entries, body, i) ==
    IF i > Len(entries) \/ st.error.kind # "none" THEN st
    ELSE RestBodyLoop(
             RestIteration(st, "body", entries[i], body[entries[i].key],
                           InvalidError("body", entries[i].key)),
             entries, body, i + 1)

RECURSIVE RestQueryLoop(_, _, _, _)
\* for (const [key, value] of Object.entries(declaration.expectQuery))
RestQueryLoop(st, entries, query, i) ==
    IF i > Len(entries) \/ st.error.kind # "none" THEN st
    ELSE RestQueryLoop(
             RestIteration(st, "query", entries[i], query[entries[i].key],
                           InvalidError("query", entries[i].key)),
             entries, query, i + 1)

RECURSIVE RestParamsLoop(_, _, _)
\* for (const [key, value] of Object.entries(declaration.expectParams)):
\* req.params[key] is read from the object the earlier loops wrote to
RestParamsLoop(st, entries, i) ==
    IF i > Len(entries) \/ st.error.kind # "none" THEN st
    ELSE RestParamsLoop(
             RestIteration(st, "path", entries[i], st.params[entries[i].key],
                           InvalidParamError(entries[i].key)),
             entries, i + 1)

\* the three loops in the order of the code
RestValidate(decl, body, query, params) ==
    RestParamsLoop(
        RestQueryLoop(
            RestBodyLoop(StartState(params), decl.expectBody, body, 1),
            decl.expectQuery, query, 1),
        decl.expectParams, 1)

(***************************************************************************)
(* native(): the three validation loops of the returned function.  Every   *)
(* loop reads the one argument object and nothing is written.              *)
(***************************************************************************)
NativeStartState == [error |-> None, scanned |-> <<>>]

\* NativeIteration with the check left out for fields that are not required
NativeIterationSkipsOptional(st, channel, entry, args) ==
    LET st1 == [st EXCEPT !.scanned = Append(@, <<channel, entry.key>>)] IN
    IF ~entry.required THEN st1
    ELSE IF args[entry.key].kind = "undefined"
    THEN [st1 EXCEPT !.error = MissingError(channel, entry.key)]
    ELSE IF ~check(entry.type, args[entry.key])
    THEN [st1 EXCEPT !.error = InvalidError(channel, entry.key)]
    ELSE st1

\* one iteration of a native() loop: continue, throw, or fall through
NativeIteration(st, channel, entry, args) ==
    LET st1 == [st EXCEPT !.scanned = Append(@, <<channel, entry.key>>)] IN
    IF ~entry.required /\ args[entry.key].kind = "undefined" THEN st1
    ELSE IF args[entry.key].kind = "undefined"
    THEN [st1 EXCEPT !.error = MissingError(channel, entry.key)]
    ELSE IF checkThrows(entry.type, args[entry.key])
    THEN [st1 EXCEPT !.error = TypeErrorRaised]
    ELSE IF ~check(entry.type, args[entry.key])
    THEN [st1 EXCEPT !.error = InvalidError(channel, entry.key)]
    ELSE st1

RECURSIVE NativeLoop(_, _, _, _, _)
\* for (const [key, value] of Object.entries(this.declaration.expect<Channel>))
NativeLoop(st, channel, entries, args, i) ==
    IF i > Len(entries) \/ st.error.kind # "none" THEN st
    ELSE NativeLoop(NativeIteration(st, channel, entries[i], args),
                    channel, entries, args, i + 1)

\* the three loops in the order of the code
NativeValidate(decl, args) ==
    NativeLoop(
        NativeLoop(
            NativeLoop(NativeStartState, "body", decl.expectBody, args, 1),
            "query", decl.expectQuery, args, 1),
        "path", decl.expectParams, args, 1)

(***************************************************************************)
(* exportToJson of a return descriptor: primitives are exported as they    *)
(* are, an object by its declared properties, an array item by item, a     *)
(* union by the alternative that accepts the value.                        *)
(***************************************************************************)
RECURSIVE exportToJson(_, _)
RECURSIVE exportProperties(_, _, _)
RECURSIVE exportItem(_, _, _)

\* the declared properties the value holds, exported, from the i-th on
exportProperties(type, value, i) ==
    IF i > Len(type.properties) THEN <<>>
    ELSE LET p == type.properties[i]
             rest == exportProperties(type, value, i + 1)
         IN  IF p.key \in DOMAIN value.val
             THEN (p.key :> exportToJson(p.type, value.val[p.key])) @@ rest
             ELSE rest

\* one item, exported by the first element descriptor that accepts it
exportItem(type, v, j) ==
    IF j > Len(type.values) THEN v
    ELSE IF check(type.values[j], v) THEN exportToJson(type.values[j], v)
    ELSE exportItem(type, v, j + 1)

exportToJson(type, value) ==
    CASE type.kind = "object" /\ value.kind = "object" ->
           Obj(exportProperties(type, value, 1))
      [] type.kind = "array" /\ value.kind = "array" ->
           Arr([i \in 1..Len(value.val) |-> exportItem(type, value.val[i], 1)])
      [] type.kind = "or" ->
           IF check(type.value0, value) THEN exportToJson(type.value0, value)
           ELSE exportToJson(type.value1, value)
      [] OTHER -> value

(***************************************************************************)
(* The declarations, requests and action results the model draws from.     *)
(***************************************************************************)
\* field maps in declaration order; "b" before "a" in the last one
FieldMaps ==
    { <<>>,
      <<Field("a", TRUE, AnyStringTypeInformation)>>,
      <<Field("a", FALSE, StringTypeInformation("x"))>>,
      <<Field("b", TRUE, StringTypeInformation("x")),
        Field("a", TRUE, AnyStringTypeInformation)>> }

ReturnTypes ==
    { AnyStringTypeInformation,
      ObjectTypeInformation(<<Field("a", TRUE, AnyStringTypeInformation)>>) }

Declarations ==
    [expectBody : FieldMaps, expectQuery : FieldMaps, expectParams : FieldMaps,
     returns : ReturnTypes]

\* values a property of an inbound object may hold; undefined is "not there"
ChannelValues == {Undefined, Str("x"), Str("y")}
Objects == [Names -> ChannelValues]
EmptyObject == [n \in Names |-> Undefined]

\* what the action may resolve to
Results ==
    { Undefined, Str("r"), Obj([a |-> Str("r"), b |-> Str("s")]) }

RestRequests ==
    [body : Objects, query : Objects, params : Objects, args : {EmptyObject}]
NativeRequests ==
    [body : {EmptyObject}, query : {EmptyObject}, params : {EmptyObject},
     args : Objects]
NoRequest ==
    [body |-> EmptyObject, query |-> EmptyObject, params |-> EmptyObject,
     args |-> EmptyObject]

\* the operation is constructed; invocation 1 has arrived at one of the fronts
Init ==
    /\ declaration \in Declarations
    /\ hasAction \in BOOLEAN
    /\ \E f \in {"rest", "native"} :
         \E r \in (IF f = "rest" THEN RestRequests ELSE NativeRequests) :
            /\ front = [i \in Invocations |-> IF i = 1 THEN f ELSE "none"]
            /\ inbound = [i \in Invocations |-> IF i = 1 THEN r ELSE NoRequest]
            /\ req = [i \in Invocations |-> IF i = 1 THEN r ELSE NoRequest]
    /\ pc = [i \in Invocations |-> IF i = 1 THEN "start" ELSE "done"]
    /\ scanned = [i \in Invocations |-> <<>>]
    /\ written = [i \in Invocations |-> <<>>]
    /\ calls = [i \in Invocations |-> 0]
    /\ handlerArgs = [i \in Invocations |-> EmptyObject]
    /\ result = [i \in Invocations |-> Undefined]
    /\ responses = [i \in Invocations |-> <<>>]
    /\ outcome = [i \in Invocations |-> None]
    /\ descriptor = AnyTypeInformation
    /\ subject = Undefined
    /\ verdict = "idle"
    /\ sendable = Pending
    /\ name = "m"
    /\ pathArg = Undefined
    /\ httpPath = Str(constructor(name, declaration, pathArg))

(***************************************************************************)
(* rest(): the action callback up to its await.  The loops run, then       *)
(* action?.(params) is called with the object the loops wrote to.          *)
(***************************************************************************)
\* RestDispatch with one merged object kept by the operation for all its
\* invocations
RestDispatchSharedParams(i) ==
    /\ pc[i] = "start"
    /\ front[i] = "rest"
    /\ LET st == RestValidate(declaration, req[i].body, req[i].query,
                              req[i].params)
       IN  /\ req' = [j \in Invocations |-> [req[j] EXCEPT !.params = st.params]]
           /\ scanned' = [scanned EXCEPT ![i] = st.scanned]
           /\ written' = [written EXCEPT ![i] = st.written]
           /\ IF st.error.kind # "none"
              THEN /\ outcome' = [outcome EXCEPT ![i] = st.error]
                   /\ pc' = [pc EXCEPT ![i] = "done"]
                   /\ UNCHANGED <<calls, handlerArgs>>
              ELSE /\ pc' = [pc EXCEPT ![i] = "awaiting"]
                   /\ UNCHANGED outcome
                   /\ IF hasAction
                      THEN /\ calls' = [calls EXCEPT ![i] = @ + 1]
                           /\ handlerArgs' = [handlerArgs EXCEPT ![i] = st.params]
                      ELSE UNCHANGED <<calls, handlerArgs>>
    /\ UNCHANGED <<declaration, hasAction, front, inbound, result, responses,
                   descriptor, subject, verdict, sendable,
                   name, pathArg, httpPath>>

RestDispatch(i) ==
    /\ pc[i] = "start"
    /\ front[i] = "rest"
    /\ LET st == RestValidate(declaration, req[i].body, req[i].query,
                              req[i].params)
       IN  /\ req' = [req EXCEPT ![i].params = st.params]
           /\ scanned' = [scanned EXCEPT ![i] = st.scanned]
           /\ written' = [written EXCEPT ![i] = st.written]
           /\ IF st.error.kind # "none"
              THEN /\ outcome' = [outcome EXCEPT ![i] = st.error]
                   /\ pc' = [pc EXCEPT ![i] = "done"]
                   /\ UNCHANGED <<calls, handlerArgs>>
              ELSE /\ pc' = [pc EXCEPT ![i] = "awaiting"]
                   /\ UNCHANGED outcome
                   /\ IF hasAction
                      THEN /\ calls' = [calls EXCEPT ![i] = @ + 1]
                           /\ handlerArgs' = [handlerArgs EXCEPT ![i] = st.params]
                      ELSE UNCHANGED <<calls, handlerArgs>>
    /\ UNCHANGED <<declaration, hasAction, front, inbound, result, responses,
                   descriptor, subject, verdict, sendable,
                   name, pathArg, httpPath>>

\* the awaited value settles: the action's result, or undefined without action
ActionResolves(i) ==
    /\ pc[i] = "awaiting"
    /\ \E r \in (IF calls[i] > 0 THEN Results ELSE {Undefined}) :
          result' = [result EXCEPT ![i] = r]
    /\ pc' = [pc EXCEPT ![i] = "resumed"]
    /\ UNCHANGED <<declaration, hasAction, front, inbound, req, scanned,
                   written, calls, handlerArgs, responses, outcome,
                   descriptor, subject, verdict, sendable,
                   name, pathArg, httpPath>>

\* the action throws or its promise rejects: the error leaves the callback
ActionRejects(i) ==
    /\ pc[i] = "awaiting"
    /\ calls[i] > 0
    /\ outcome' = [outcome EXCEPT ![i] = ActionError]
    /\ pc' = [pc EXCEPT ![i] = "done"]
    /\ UNCHANGED <<declaration, hasAction, front, inbound, req, scanned,
                   written, calls, handlerArgs, result, responses,
                   descriptor, subject, verdict, sendable,
                   name, pathArg, httpPath>>

\* RestResponse with the result sent as it is
RestResponseUnexported(decl, value) == [status |-> 200, body |-> value]

\* declaration.returns?.exportToJson(result); res.status(200).json(exported).end()
RestResponse(decl, value) ==
    [status |-> 200, body |-> exportToJson(decl.returns, value)]

RestRespond(i) ==
    /\ pc[i] = "resumed"
    /\ responses' = [responses EXCEPT
                       ![i] = Append(@, RestResponse(declaration, result[i]))]
    /\ pc' = [pc EXCEPT ![i] = "done"]
    /\ UNCHANGED <<declaration, hasAction, front, inbound, req, scanned,
                   written, calls, handlerArgs, result, outcome,
                   descriptor, subject, verdict, sendable,
                   name, pathArg, httpPath>>

(***************************************************************************)
(* native(): the returned function, called with args.  behaviour is what   *)
(* the action does if it is called: the value it returns, or Throws.       *)
(***************************************************************************)
Throws == [kind |-> "throws"]
Behaviours == Results \cup {Throws}

\* the declared fields of args only
DeclaredPart(decl, args) ==
    [key \in DOMAIN args |->
        IF \E k \in 1..Len(decl.expectBody) : decl.expectBody[k].key = key
        THEN args[key]
        ELSE IF \E k \in 1..Len(decl.expectQuery) : decl.expectQuery[k].key = key
        THEN args[key]
        ELSE IF \E k \in 1..Len(decl.expectParams) : decl.expectParams[k].key = key
        THEN args[key]
        ELSE Undefined]

\* NativeRun with the missing-action test after the loops
NativeRunValidatesFirst(decl, action, args, behaviour) ==
    LET st == NativeValidate(decl, args) IN
    IF st.error.kind # "none"
    THEN [outcome |-> st.error, scanned |-> st.scanned, called |-> FALSE,
          handlerArgs |-> EmptyObject, result |-> Undefined]
    ELSE IF ~action
    THEN [outcome |-> NoActionError, scanned |-> st.scanned, called |-> FALSE,
          handlerArgs |-> EmptyObject, result |-> Undefined]
    ELSE IF behaviour.kind = "throws"
    THEN [outcome |-> ActionError, scanned |-> st.scanned, called |-> TRUE,
          handlerArgs |-> args, result |-> Undefined]
    ELSE [outcome |-> [kind |-> "returned", value |-> behaviour],
          scanned |-> st.scanned, called |-> TRUE,
          handlerArgs |-> args, result |-> behaviour]

\* NativeRun handing the action a remapped object of the declared fields
NativeRunRemaps(decl, action, args, behaviour) ==
    IF ~action
    THEN [outcome |-> NoActionError, scanned |-> <<>>, called |-> FALSE,
          handlerArgs |-> EmptyObject, result |-> Undefined]
    ELSE LET st == NativeValidate(decl, args) IN
         IF st.error.kind # "none"
         THEN [outcome |-> st.error, scanned |-> st.scanned, called |-> FALSE,
               handlerArgs |-> EmptyObject, result |-> Undefined]
         ELSE IF behaviour.kind = "throws"
         THEN [outcome |-> ActionError, scanned |-> st.scanned, called |-> TRUE,
               handlerArgs |-> DeclaredPart(decl, args), result |-> Undefined]
         ELSE [outcome |-> [kind |-> "returned", value |-> behaviour],
               scanned |-> st.scanned, called |-> TRUE,
               handlerArgs |-> DeclaredPart(decl, args), result |-> behaviour]

NativeRun(decl, action, args, behaviour) ==
    IF ~action
    THEN [outcome |-> NoActionError, scanned |-> <<>>, called |-> FALSE,
          handlerArgs |-> EmptyObject, result |-> Undefined]
    ELSE LET st == NativeValidate(decl, args) IN
         IF st.error.kind # "none"
         THEN [outcome |-> st.error, scanned |-> st.scanned, called |-> FALSE,
               handlerArgs |-> EmptyObject, result |-> Undefined]
         ELSE IF behaviour.kind = "throws"
         THEN [outcome |-> ActionError, scanned |-> st.scanned, called |-> TRUE,
               handlerArgs |-> args, result |-> Undefined]
         ELSE [outcome |-> [kind |-> "returned", value |-> behaviour],
               scanned |-> st.scanned, called |-> TRUE,
               handlerArgs |-> args, result |-> behaviour]

NativeDispatch(i) ==
    /\ pc[i] = "start"
    /\ front[i] = "native"
    /\ \E behaviour \in Behaviours :
         LET run == NativeRun(declaration, hasAction, req[i].args, behaviour) IN
         /\ outcome' = [outcome EXCEPT ![i] = run.outcome]
         /\ scanned' = [scanned EXCEPT ![i] = run.scanned]
         /\ calls' = [calls EXCEPT ![i] = IF run.called THEN @ + 1 ELSE @]
         /\ handlerArgs' = [handlerArgs EXCEPT
                              ![i] = IF run.called THEN run.handlerArgs ELSE @]
         /\ result' = [result EXCEPT ![i] = IF run.called THEN run.result ELSE @]
    /\ pc' = [pc EXCEPT ![i] = "done"]
    /\ UNCHANGED <<declaration, hasAction, front, inbound, req, written,
                   responses,
                   descriptor, subject, verdict, sendable,
                   name, pathArg, httpPath>>

Next ==
    \E i \in Invocations :
        \/ RestDispatch(i)
        \/ ActionResolves(i)
        \/ ActionRejects(i)
        \/ RestRespond(i)
        \/ NativeDispatch(i)

Spec == Init /\ [][Next]_vars


(***************************************************************************)
(* Concurrent requests: every invocation is a request to rest() of the one *)
(* operation, each with its own req, and the runs of the action callback   *)
(* interleave at their await.                                              *)
(***************************************************************************)
ConcurrentDeclarations ==
    [expectBody : {<<>>},
     expectQuery : {<<Field("a", TRUE, AnyStringTypeInformation)>>},
     expectParams : {<<>>, <<Field("a", FALSE, StringTypeInformation("x"))>>},
     returns : {AnyStringTypeInformation}]

\* inbound objects holding at most the property a
ConcurrentObjects == { o \in Objects : o["b"] = Undefined }

ConcurrentRequests ==
    [body : {EmptyObject}, query : ConcurrentObjects,
     params : ConcurrentObjects, args : {EmptyObject}]

InitConcurrent ==
    /\ declaration \in ConcurrentDeclarations
    /\ hasAction = TRUE
    /\ front = [i \in Invocations |-> "rest"]
    /\ inbound \in [Invocations -> ConcurrentRequests]
    /\ req = inbound
    /\ pc = [i \in Invocations |-> "start"]
    /\ scanned = [i \in Invocations |-> <<>>]
    /\ written = [i \in Invocations |-> <<>>]
    /\ calls = [i \in Invocations |-> 0]
    /\ handlerArgs = [i \in Invocations |-> EmptyObject]
    /\ result = [i \in Invocations |-> Undefined]
    /\ responses = [i \in Invocations |-> <<>>]
    /\ outcome = [i \in Invocations |-> None]
    /\ descriptor = AnyTypeInformation
    /\ subject = Undefined
    /\ verdict = "idle"
    /\ sendable = Pending
    /\ name = "m"
    /\ pathArg = Undefined
    /\ httpPath = Str(constructor(name, declaration, pathArg))

NextConcurrent ==
    \E i \in Invocations :
        \/ RestDispatch(i)
        \/ ActionResolves(i)
        \/ ActionRejects(i)
        \/ RestRespond(i)

SpecConcurrent == InitConcurrent /\ [][NextConcurrent]_vars


(***************************************************************************)
(* The type descriptors on their own: a descriptor is built, by a class    *)
(* constructor or by a factory function, and its check is applied to a     *)
(* value.                                                                  *)
(***************************************************************************)
\* descriptors of the properties of the objects under test
PropertyTypes ==
    { AnyStringTypeInformation, StringTypeInformation("x"),
      AnyNumberTypeInformation }

\* the property maps {a: ..., b: ...} handed to the constructor or to object()
PropertyMaps ==
    { <<Field("a", ra, ta), Field("b", rb, tb)>> :
        ra \in BOOLEAN, rb \in BOOLEAN, ta \in PropertyTypes, tb \in PropertyTypes }

ObjectDescriptors ==
    { ObjectTypeInformation(m) : m \in PropertyMaps }
      \cup { object(m) : m \in PropertyMaps }

\* values a property of an object under test may hold
PropertyValues == {Str("x"), Str("y"), Num(5)}

\* the objects over the properties a and b, each there or not
ObjectValues ==
    { Obj(f) : f \in UNION { [keys -> PropertyValues] : keys \in SUBSET {"a", "b"} } }

\* an object descriptor as the type of a property, and one with no property
InnerObject == ObjectTypeInformation(<<Field("c", TRUE, AnyStringTypeInformation)>>)

NestedDescriptors ==
    { ObjectTypeInformation(<<Field("a", ra, InnerObject),
                              Field("b", rb, AnyStringTypeInformation)>>) :
        ra \in BOOLEAN, rb \in BOOLEAN }
      \cup { ObjectTypeInformation(<<Field("a", ra, Or(InnerObject, NullTypeInformation))>>) :
               ra \in BOOLEAN }
      \cup { ObjectTypeInformation(<<>>), object(<<>>) }

NestedValues ==
    { Obj(f) : f \in [{"a", "b"} ->
                        {Undefined, Null, Str("x"), Obj([c |-> Str("x")]),
                         Obj([c |-> Num(5)])}] }

\* values that are not structured mappings
NonMappings ==
    { Null, Undefined, Str("x"), Num(5), Bool(TRUE), Arr(<<>>),
      Arr(<<Str("x")>>) }

\* array(values, {minItems, maxItems})
array(values, minItems, maxItems) ==
    ArrayTypeInformation(values, minItems, maxItems)

\* the element descriptors of the arrays under test
ElementDescriptors ==
    { <<>>,
      <<AnyStringTypeInformation>>,
      <<AnyStringTypeInformation, AnyNumberTypeInformation>>,
      <<InnerObject, NullTypeInformation>>,
      <<NullTypeInformation, InnerObject>> }

\* longest sequence handed to an array check
MaxItems == 3

ItemCounts == {Absent} \cup (0..(MaxItems - 1))

ArrayDescriptors ==
    { array(values, minItems, maxItems) :
        values \in ElementDescriptors, minItems \in ItemCounts,
        maxItems \in ItemCounts }

Items == {Str("x"), Num(5), Null}

ArrayValues ==
    { Arr(items) : items \in UNION { [1..n -> Items] : n \in 0..MaxItems } }
      \cup { Str("x"), Null, Undefined, Obj([a |-> Str("x")]) }

\* numberRange(min, max)
numberRange(min, max) == NumberRangeTypeInformation(min, max)

\* the bounds of the ranges under test lie in -MaxBound..MaxBound
MaxBound == 2

RangeDescriptors ==
    { numberRange(min, max) : min \in (-MaxBound)..MaxBound,
                              max \in (-MaxBound)..MaxBound }

RangeValues ==
    { Num(n) : n \in (-MaxBound - 1)..(MaxBound + 1) }
      \cup { Str("1"), Bool(TRUE), Null, Undefined, Arr(<<Num(1)>>),
             Obj([a |-> Num(1)]) }

\* descriptors whose sendableVia is read: the leaves, unions of them, a union
\* of a union, and objects and arrays over them
Leaves ==
    { StringTypeInformation("x"), NumberTypeInformation(5),
      NumberRangeTypeInformation(0, 1), BooleanTypeInformation(TRUE),
      NullTypeInformation, UndefinedTypeInformation, AnyStringTypeInformation,
      AnyNumberTypeInformation, AnyBooleanTypeInformation, AnyTypeInformation }

Unions == { Or(t0, t1) : t0 \in Leaves, t1 \in Leaves }

Composites ==
    { Or(Or(AnyStringTypeInformation, AnyNumberTypeInformation), t) : t \in Leaves }
      \cup { Or(t, InnerObject) : t \in Leaves }
      \cup { ObjectTypeInformation(<<Field("a", r, t)>>) : r \in BOOLEAN, t \in Leaves }
      \cup { array(<<t>>, Absent, Absent) : t \in Leaves }
      \cup { array(<<>>, Absent, Absent), ObjectTypeInformation(<<>>),
             array(<<AnyStringTypeInformation, AnyNumberTypeInformation>>, Absent, Absent) }

SendableDescriptors == Leaves \cup Unions \cup Composites

InitTypes ==
    /\ \/ descriptor \in ObjectDescriptors /\ subject \in ObjectValues
       \/ descriptor \in ObjectDescriptors \cup NestedDescriptors
            /\ subject \in NonMappings
       \/ descriptor \in NestedDescriptors /\ subject \in NestedValues
       \/ descriptor \in ArrayDescriptors /\ subject \in ArrayValues
       \/ descriptor \in RangeDescriptors /\ subject \in RangeValues
       \/ descriptor \in SendableDescriptors /\ subject \in {Str("x"), Num(5)}
    /\ verdict = "pending"
    /\ declaration = [expectBody |-> <<>>, expectQuery |-> <<>>,
                      expectParams |-> <<>>, returns |-> AnyTypeInformation]
    /\ hasAction = FALSE
    /\ front = [i \in Invocations |-> "none"]
    /\ inbound = [i \in Invocations |-> NoRequest]
    /\ req = [i \in Invocations |-> NoRequest]
    /\ pc = [i \in Invocations |-> "done"]
    /\ scanned = [i \in Invocations |-> <<>>]
    /\ written = [i \in Invocations |-> <<>>]
    /\ calls = [i \in Invocations |-> 0]
    /\ handlerArgs = [i \in Invocations |-> EmptyObject]
    /\ result = [i \in Invocations |-> Undefined]
    /\ responses = [i \in Invocations |-> <<>>]
    /\ outcome = [i \in Invocations |-> None]
    /\ sendable = Pending
    /\ name = "m"
    /\ pathArg = Undefined
    /\ httpPath = Str(constructor(name, declaration, pathArg))

\* descriptor.check(subject)
Check ==
    /\ verdict = "pending"
    /\ verdict' = checkEval(descriptor, subject)
    /\ UNCHANGED <<declaration, hasAction, front, inbound, req, pc, scanned,
                   written, calls, handlerArgs, result, responses, outcome,
                   descriptor, subject, sendable, name, pathArg, httpPath>>

\* descriptor.sendableVia
SendableVia ==
    /\ sendable = Pending
    /\ sendable' = [kind |-> "channels", list |-> sendableVia(descriptor)]
    /\ UNCHANGED <<declaration, hasAction, front, inbound, req, pc, scanned,
                   written, calls, handlerArgs, result, responses, outcome,
                   descriptor, subject, verdict, name, pathArg, httpPath>>

NextTypes == Check \/ SendableVia

SpecTypes == InitTypes /\ [][NextTypes]_vars


(***************************************************************************)
(* The constructor on its own: an operation is constructed from a name, a  *)
(* declaration and the httpPath argument, which may be left out.           *)
(***************************************************************************)
OperationNames == {"m", "test"}

\* the httpPath argument: left out, empty, or a path
PathArgs == {Undefined, Str(""), Str("/p"), Str("/m/:a")}

InitConstruct ==
    /\ declaration \in Declarations
    /\ name \in OperationNames
    /\ pathArg \in PathArgs
    /\ httpPath = Pending
    /\ hasAction = FALSE
    /\ front = [i \in Invocations |-> "none"]
    /\ inbound = [i \in Invocations |-> NoRequest]
    /\ req = [i \in Invocations |-> NoRequest]
    /\ pc = [i \in Invocations |-> "done"]
    /\ scanned = [i \in Invocations |-> <<>>]
    /\ written = [i \in Invocations |-> <<>>]
    /\ calls = [i \in Invocations |-> 0]
    /\ handlerArgs = [i \in Invocations |-> EmptyObject]
    /\ result = [i \in Invocations |-> Undefined]
    /\ responses = [i \in Invocations |-> <<>>]
    /\ outcome = [i \in Invocations |-> None]
    /\ descriptor = AnyTypeInformation
    /\ subject = Undefined
    /\ verdict = "idle"
    /\ sendable = Pending

\* new RsterApiMethod(name, description, declaration, httpPath)
Construct ==
    /\ httpPath = Pending
    /\ httpPath' = Str(constructor(name, declaration, pathArg))
    /\ UNCHANGED <<declaration, hasAction, front, inbound, req, pc, scanned,
                   written, calls, handlerArgs, result, responses, outcome,
                   descriptor, subject, verdict, sendable, name, pathArg>>

NextConstruct == Construct

SpecConstruct == InitConstruct /\ [][NextConstruct]_vars


(***************************************************************************)
(* Vocabulary of the properties.                                           *)
(***************************************************************************)
\* the three channels in the order the loops take them
Channels == <<"body", "query", "path">>

\* the field map a declaration declares for a channel
FieldMapOf(decl, channel) ==
    CASE channel = "body" -> decl.expectBody
      [] channel = "query" -> decl.expectQuery
      [] channel = "path" -> decl.expectParams

\* the object a channel's fields arrived in, for an invocation of either front
ChannelObject(i, channel) ==
    IF front[i] = "native" THEN inbound[i].args
    ELSE CASE channel = "body" -> inbound[i].body
           [] channel = "query" -> inbound[i].query
           [] channel = "path" -> inbound[i].params

Declares(decl, channel, key) ==
    \E k \in 1..Len(FieldMapOf(decl, channel)) :
        FieldMapOf(decl, channel)[k].key = key

EntryFor(decl, channel, key) ==
    LET m == FieldMapOf(decl, channel) IN
    m[CHOOSE k \in 1..Len(m) : m[k].key = key]

\* the declared fields, as <<channel, entry>>
DeclaredFields(decl) ==
    UNION { { <<Channels[c], FieldMapOf(decl, Channels[c])[k]>> :
                k \in 1..Len(FieldMapOf(decl, Channels[c])) } : c \in 1..3 }

\* the <<channel, key>> of the declared fields in the order the loops take them
RECURSIVE KeysOf(_, _, _)
KeysOf(channel, entries, k) ==
    IF k > Len(entries) THEN <<>>
    ELSE <<<<channel, entries[k].key>>>> \o KeysOf(channel, entries, k + 1)

ScanOrder(decl) ==
    KeysOf("body", decl.expectBody, 1) \o KeysOf("query", decl.expectQuery, 1)
        \o KeysOf("path", decl.expectParams, 1)

Range(seq) == { seq[k] : k \in 1..Len(seq) }

\* what an error says: its kind, the channel and the field it names
IsValidationError(e) == e.kind = "error" /\ e.status = 400
ErrKind(e) == e.message[1]
ErrChannel(e) == IF e.message[2] = "param" THEN "path" ELSE e.message[2]
ErrField(e) == e.message[Len(e.message)]
Names400(e, kind, channel, key) ==
    /\ IsValidationError(e)
    /\ ErrKind(e) = kind
    /\ ErrChannel(e) = channel
    /\ ErrField(e) = key

\* a validation outcome: accept, or the kind, channel and field of the reject
Verdict(e) ==
    IF e.kind = "none" THEN <<"accept">>
    ELSE IF IsValidationError(e) THEN <<ErrKind(e), ErrChannel(e), ErrField(e)>>
    ELSE e.message

\* a declared field is missing while required, or its value fails its check
FieldFails(entry, source) ==
    IF source[entry.key].kind = "undefined" THEN entry.required
    ELSE ~check(entry.type, source[entry.key])

SomeFieldFails(i) ==
    \E f \in DeclaredFields(declaration) :
        FieldFails(f[2], ChannelObject(i, f[1]))

\* the loops of invocation i ran to their end without raising
ValidationPassed(i) ==
    /\ pc[i] # "start"
    /\ front[i] # "none"
    /\ outcome[i] \in {None, ActionError} \/ outcome[i].kind = "returned"

(***************************************************************************)
(* C1.  In both fronts the action is never called in an invocation in      *)
(* which a declared body, query or path field is missing while required or *)
(* fails its descriptor's check, and an invocation that raised a missing / *)
(* invalid parameter error has not called the action and never will.       *)
(***************************************************************************)
C1_NoCallUnlessAllFieldsValid ==
    \A i \in Invocations :
        front[i] # "none" =>
            /\ SomeFieldFails(i) => calls[i] = 0
            /\ IsValidationError(outcome[i]) => calls[i] = 0 /\ pc[i] = "done"

(***************************************************************************)
(* C2.  rest(): for a name declared in more than one channel whose values  *)
(* all pass validation, the action sees the value of the latest declaring  *)
(* channel in the order body, query, path.                                 *)
(***************************************************************************)
DeclaringChannels(key) ==
    { c \in 1..3 : Declares(declaration, Channels[c], key) }

Latest(cs) == CHOOSE c \in cs : \A d \in cs : d <= c

PassesInOwnChannel(i, c, key) ==
    /\ ChannelObject(i, Channels[c])[key].kind # "undefined"
    /\ check(EntryFor(declaration, Channels[c], key).type,
             ChannelObject(i, Channels[c])[key])

C2_LatestChannelWins ==
    \A i \in Invocations :
        (front[i] = "rest" /\ calls[i] > 0) =>
            \A key \in Names :
                ( /\ Cardinality(DeclaringChannels(key)) >= 2
                  /\ \A c \in DeclaringChannels(key) : PassesInOwnChannel(i, c, key) )
                => handlerArgs[i][key] =
                     ChannelObject(i, Channels[Latest(DeclaringChannels(key))])[key]

(***************************************************************************)
(* C3.  rest(): the object the action receives holds exactly the declared  *)
(* fields that were present in their own channel, each with the value of a *)
(* channel that declares it, and no other key.                             *)
(***************************************************************************)
PresentIn(i, key) ==
    { c \in DeclaringChannels(key) :
        ChannelObject(i, Channels[c])[key].kind # "undefined" }

C3_OnlyDeclaredKeysReachAction ==
    \A i \in Invocations :
        (front[i] = "rest" /\ calls[i] > 0) =>
            \A key \in Names :
                IF PresentIn(i, key) = {}
                THEN handlerArgs[i][key].kind = "undefined"
                ELSE handlerArgs[i][key] \in
                       { ChannelObject(i, Channels[c])[key] : c \in PresentIn(i, key) }

(***************************************************************************)
(* C4.  rest(): for every declared field the loops come to: absent from    *)
(* its channel and required, the invocation ends in a status-400 missing   *)
(* parameter error naming the channel and the field; absent and not        *)
(* required, nothing is written for it and the scan goes on.               *)
(***************************************************************************)
ScanGoesOnAfter(i, channel, key) ==
    /\ ~(IsValidationError(outcome[i]) /\ ErrChannel(outcome[i]) = channel
           /\ ErrField(outcome[i]) = key)
    /\ \A p \in 1..Len(ScanOrder(declaration)) :
          (ScanOrder(declaration)[p] = <<channel, key>>
             /\ p < Len(ScanOrder(declaration)))
          => Len(scanned[i]) > p

C4_AbsentFieldMissingOrSkipped ==
    \A i \in Invocations :
        (front[i] = "rest" /\ pc[i] # "start") =>
            \A f \in DeclaredFields(declaration) :
                ( /\ <<f[1], f[2].key>> \in Range(scanned[i])
                  /\ ChannelObject(i, f[1])[f[2].key].kind = "undefined" )
                => IF f[2].required
                   THEN Names400(outcome[i], "Missing", f[1], f[2].key)
                   ELSE /\ \A w \in Range(written[i]) :
                              ~(w[1] = f[1] /\ w[2] = f[2].key)
                        /\ ScanGoesOnAfter(i, f[1], f[2].key)

(***************************************************************************)
(* C5.  rest(): for every declared field the loops come to whose value is  *)
(* present in its channel: if its check rejects the value the invocation   *)
(* ends in a status-400 invalid parameter error naming the field, required *)
(* or not, and the value is not written; if it accepts, the value is       *)
(* written under the field's name.                                         *)
(***************************************************************************)
C5_PresentFieldInvalidOrWritten ==
    \A i \in Invocations :
        (front[i] = "rest" /\ pc[i] # "start") =>
            \A f \in DeclaredFields(declaration) :
                LET v == ChannelObject(i, f[1])[f[2].key] IN
                ( /\ <<f[1], f[2].key>> \in Range(scanned[i])
                  /\ v.kind # "undefined" )
                => IF ~check(f[2].type, v)
                   THEN /\ Names400(outcome[i], "Invalid", f[1], f[2].key)
                        /\ <<f[1], f[2].key, v>> \notin Range(written[i])
                   ELSE <<f[1], f[2].key, v>> \in Range(written[i])


(***************************************************************************)
(* C6.  rest(): when every declared field passes validation (the three     *)
(* loops end without raising) the action is called exactly once with the   *)
(* merged object, and exactly one response is sent, with status 200 and    *)
(* the return descriptor's export of the action's result as its body, and  *)
(* only after the awaited action has completed, never before.              *)
(***************************************************************************)
\* what rest() does after the loops, apart from how often it calls the action
C6_ResponseFollowsAction(i) ==
    /\ ~ValidationPassed(i) => calls[i] = 0
    /\ pc[i] \in {"start", "awaiting"} => responses[i] = <<>>
    /\ responses[i] # <<>> => ValidationPassed(i) /\ pc[i] = "done"
    /\ (pc[i] = "done" /\ outcome[i].kind = "none") =>
         responses[i] =
           << [status |-> 200,
               body |-> exportToJson(declaration.returns, result[i])] >>
    /\ (pc[i] = "done" /\ outcome[i].kind # "none") => responses[i] = <<>>

C6_OneCallThenOneResponse ==
    \A i \in Invocations :
        front[i] = "rest" =>
            /\ ValidationPassed(i) =>
                 /\ calls[i] = 1
                 /\ handlerArgs[i] = req[i].params
            /\ C6_ResponseFollowsAction(i)

(***************************************************************************)
(* C6, amended.  As C6 for an operation constructed with an action; an     *)
(* operation constructed without one calls nothing after the loops and     *)
(* still sends exactly one response, with status 200 and the export of     *)
(* undefined as its body.                                                  *)
(***************************************************************************)
C6_OneCallIfActionThenOneResponse ==
    \A i \in Invocations :
        front[i] = "rest" =>
            /\ ValidationPassed(i) =>
                 /\ calls[i] = (IF hasAction THEN 1 ELSE 0)
                 /\ hasAction => handlerArgs[i] = req[i].params
                 /\ ~hasAction => result[i].kind = "undefined"
            /\ C6_ResponseFollowsAction(i)

\* a finished rest invocation whose action got a written field and resolved
\* to an object that its export changes
C6_Witness ==
    \E i \in Invocations :
        /\ front[i] = "rest"
        /\ pc[i] = "done"
        /\ calls[i] = 1
        /\ written[i] # <<>>
        /\ Len(responses[i]) = 1
        /\ result[i].kind = "object"
        /\ responses[i][1].body # result[i]

(***************************************************************************)
(* C7.  The validation loops of native() and of rest() give the same       *)
(* outcome: for every declaration and argument object A, native() on A and *)
(* rest() with body, query and params all equal to A both accept, or both  *)
(* reject with the same kind, channel and field.                           *)
(***************************************************************************)
C7_FrontsValidateAlike ==
    \A i \in Invocations :
        /\ ( /\ front[i] = "rest"
             /\ pc[i] # "start"
             /\ inbound[i].body = inbound[i].params
             /\ inbound[i].query = inbound[i].params )
           => Verdict(IF IsValidationError(outcome[i]) THEN outcome[i] ELSE None)
                = Verdict(NativeValidate(declaration, inbound[i].params).error)
        /\ (front[i] = "native" /\ pc[i] # "start" /\ hasAction)
           => Verdict(IF IsValidationError(outcome[i]) THEN outcome[i] ELSE None)
                = Verdict(RestValidate(declaration, inbound[i].args,
                                       inbound[i].args, inbound[i].args).error)

\* rest() on three equal objects rejected a present value of an optional
\* path field
C7_Witness ==
    \E i \in Invocations :
        /\ front[i] = "rest"
        /\ inbound[i].body = inbound[i].params
        /\ inbound[i].query = inbound[i].params
        /\ IsValidationError(outcome[i])
        /\ ErrKind(outcome[i]) = "Invalid"
        /\ ErrChannel(outcome[i]) = "path"
        /\ ~EntryFor(declaration, "path", ErrField(outcome[i])).required

(***************************************************************************)
(* C8.  native() on an operation constructed without an action raises the  *)
(* no-action error for every argument object, before any field is          *)
(* validated: never a missing / invalid parameter error, never a result.   *)
(***************************************************************************)
C8_NoActionRaisedFirst ==
    \A i \in Invocations :
        (front[i] = "native" /\ ~hasAction /\ pc[i] = "done") =>
            /\ outcome[i] = NoActionError
            /\ scanned[i] = <<>>
            /\ calls[i] = 0

\* native() without an action, on an argument object that validation rejects
C8_Witness ==
    \E i \in Invocations :
        /\ front[i] = "native"
        /\ ~hasAction
        /\ pc[i] = "done"
        /\ SomeFieldFails(i)
        /\ outcome[i] = NoActionError

(***************************************************************************)
(* C9.  native(): when the three passes succeed the action receives the    *)
(* caller's argument object unchanged, undeclared keys included, nothing   *)
(* has been written to it, and the caller gets the action's result as it   *)
(* is, not exported.                                                       *)
(***************************************************************************)
C9_NativePassesArgsAndResultThrough ==
    \A i \in Invocations :
        (front[i] = "native" /\ pc[i] = "done") =>
            /\ req[i].args = inbound[i].args
            /\ written[i] = <<>>
            /\ (hasAction /\ ~SomeFieldFails(i)) =>
                 /\ calls[i] = 1
                 /\ handlerArgs[i] = inbound[i].args
                 /\ outcome[i] \in
                      {ActionError, [kind |-> "returned", value |-> result[i]]}
            /\ outcome[i].kind = "returned" =>
                 /\ calls[i] = 1
                 /\ outcome[i].value = result[i]

\* the action got an argument object with an undeclared key and returned an
\* object that the return descriptor's export would change
C9_Witness ==
    \E i \in Invocations :
        /\ front[i] = "native"
        /\ calls[i] = 1
        /\ \E key \in Names :
              /\ handlerArgs[i][key].kind # "undefined"
              /\ DeclaringChannels(key) = {}
        /\ DeclaredFields(declaration) # {}
        /\ outcome[i].kind = "returned"
        /\ exportToJson(declaration.returns, result[i]) # outcome[i].value

(***************************************************************************)
(* C10.  An object descriptor with a required any-string field a and a     *)
(* not required any-string field b, built by the constructor or by         *)
(* object(), accepts {a:"x"} and {a:"x", b:"y"} and rejects {} and         *)
(* {a:"x", b:5}; in general a declared field that is not required and is   *)
(* absent never causes rejection, and one that is present with a value its *)
(* type rejects does.                                                      *)
(***************************************************************************)
RequiredAOptionalB ==
    << Field("a", TRUE, AnyStringTypeInformation),
       Field("b", FALSE, AnyStringTypeInformation) >>

\* the properties that give the intended check a reason to reject
RejectingProperties(type, value) ==
    { k \in 1..Len(type.properties) :
        IF Get(value, type.properties[k].key).kind = "undefined"
        THEN type.properties[k].required
        ELSE ~check(type.properties[k].type, Get(value, type.properties[k].key)) }

C10_OptionalFieldTruthTable ==
    ( /\ verdict \in {"true", "false", "TypeError"}
      /\ descriptor.kind = "object"
      /\ subject.kind = "object" ) =>
        /\ descriptor \in { ObjectTypeInformation(RequiredAOptionalB),
                            object(RequiredAOptionalB) } =>
             /\ subject = Obj([a |-> Str("x")]) => verdict = "true"
             /\ subject = Obj([a |-> Str("x"), b |-> Str("y")]) => verdict = "true"
             /\ DOMAIN subject.val = {} => verdict = "false"
             /\ subject = Obj([a |-> Str("x"), b |-> Num(5)]) => verdict = "false"
        /\ (\E k \in 1..Len(descriptor.properties) :
              /\ ~descriptor.properties[k].required
              /\ Get(subject, descriptor.properties[k].key).kind = "undefined"
              /\ RejectingProperties(descriptor, subject) = {})
           => verdict = "true"
        /\ (\E k \in 1..Len(descriptor.properties) :
              /\ ~descriptor.properties[k].required
              /\ Get(subject, descriptor.properties[k].key).kind # "undefined"
              /\ k \in RejectingProperties(descriptor, subject))
           => verdict = "false"

(***************************************************************************)
(* C11.  The check of an object descriptor accepts a structured mapping    *)
(* exactly when every declared property either is required and holds a    *)
(* value other than undefined, or has a type whose check accepts the value *)
(* the mapping holds for it; so a mapping in which every property is       *)
(* required and present is accepted whatever the types say of the values.  *)
(***************************************************************************)
PropertyPasses(property, value) ==
    \/ property.required /\ Get(value, property.key).kind # "undefined"
    \/ check(property.type, Get(value, property.key))

C11_RequiredPresentSkipsTypeCheck ==
    ( /\ verdict # "pending"
      /\ descriptor.kind = "object"
      /\ subject.kind = "object" ) =>
        /\ verdict = "true" <=>
             \A k \in 1..Len(descriptor.properties) :
                 PropertyPasses(descriptor.properties[k], subject)
        /\ (\A k \in 1..Len(descriptor.properties) :
               /\ descriptor.properties[k].required
               /\ Get(subject, descriptor.properties[k].key).kind # "undefined")
           => verdict = "true"

\* an accepted mapping with a required property holding a value its type
\* rejects
C11_Witness ==
    /\ verdict = "true"
    /\ descriptor.kind = "object"
    /\ subject.kind = "object"
    /\ \E k \in 1..Len(descriptor.properties) :
          /\ descriptor.properties[k].required
          /\ Get(subject, descriptor.properties[k].key).kind # "undefined"
          /\ ~check(descriptor.properties[k].type,
                    Get(subject, descriptor.properties[k].key))

(***************************************************************************)
(* C12.  The check of an array descriptor accepts a value exactly when it  *)
(* is a sequence, its length is at least minItems (0 when absent) and at   *)
(* most maxItems (unbounded when absent), and every element is accepted by *)
(* at least one element descriptor; with minItems 1 and maxItems 2 the     *)
(* empty sequence and every sequence of three elements are rejected, and a *)
(* sequence holding an element no element descriptor accepts is rejected.  *)
(***************************************************************************)
\* some element descriptor accepts the item
AcceptedBySome(type, item) ==
    \E j \in 1..Len(type.values) : check(type.values[j], item)

LengthInBounds(type, value) ==
    /\ Len(value.val) >= (IF type.minItems = Absent THEN 0 ELSE type.minItems)
    /\ type.maxItems = Absent \/ Len(value.val) <= type.maxItems

C12_ArrayLengthAndElements ==
    (verdict # "pending" /\ descriptor.kind = "array") =>
        /\ verdict = "true" <=>
             /\ isArray(subject)
             /\ LengthInBounds(descriptor, subject)
             /\ \A i \in 1..Len(subject.val) :
                    AcceptedBySome(descriptor, subject.val[i])
        /\ ( /\ descriptor.minItems = 1
             /\ descriptor.maxItems = 2
             /\ isArray(subject)
             /\ Len(subject.val) \in {0, 3} )
           => verdict = "false"
        /\ ( /\ isArray(subject)
             /\ \E i \in 1..Len(subject.val) :
                    ~AcceptedBySome(descriptor, subject.val[i]) )
           => verdict = "false"

(***************************************************************************)
(* C13.  The check of a number range descriptor with bounds min and max    *)
(* accepts v exactly when v is a number and min <= v <= max: min and max   *)
(* are accepted (when min <= max), min-1 and max+1 are rejected, every     *)
(* value that is not a number is rejected, and a descriptor with min > max *)
(* accepts nothing.  Rejecting is returning false, never raising.          *)
(***************************************************************************)
C13_RangeAcceptsMinToMax ==
    (verdict # "pending" /\ descriptor.kind = "numberRange") =>
        /\ verdict \in {"true", "false"}
        /\ verdict = "true" <=>
             /\ subject.kind = "number"
             /\ descriptor.min <= subject.val
             /\ subject.val <= descriptor.max
        /\ ( /\ descriptor.min <= descriptor.max
             /\ subject \in {Num(descriptor.min), Num(descriptor.max)} )
           => verdict = "true"
        /\ subject \in {Num(descriptor.min - 1), Num(descriptor.max + 1)}
           => verdict = "false"
        /\ subject.kind # "number" => verdict = "false"
        /\ descriptor.min > descriptor.max => verdict = "false"

\* max itself was accepted by a range of more than one number
C13_Witness ==
    /\ verdict = "true"
    /\ descriptor.kind = "numberRange"
    /\ descriptor.min < descriptor.max
    /\ subject = Num(descriptor.max)

(***************************************************************************)
(* C14.  An operation constructed without an explicit path has the path    *)
(* "/name" followed by "/:key" for every declared path field, in the       *)
(* declaration order of expectParams; an operation constructed with an     *)
(* explicit path has that path unchanged.                                  *)
(***************************************************************************)
RECURSIVE Placeholders(_, _)
\* "/:key" for the k-th declared path field and those after it
Placeholders(entries, k) ==
    IF k > Len(entries) THEN ""
    ELSE ("/:" \o entries[k].key) \o Placeholders(entries, k + 1)

DerivedPath == ("/" \o name) \o Placeholders(declaration.expectParams, 1)

C14_PathDerivedOrGiven ==
    httpPath.kind # "pending" =>
        IF pathArg.kind = "undefined"
        THEN httpPath = Str(DerivedPath)
        ELSE httpPath = pathArg

(***************************************************************************)
(* C14, amended.  As C14, with an explicit path that is the empty string   *)
(* treated as no explicit path: the operation's path is then the derived   *)
(* one.                                                                    *)
(***************************************************************************)
C14_PathDerivedOrGivenNonEmpty ==
    httpPath.kind # "pending" =>
        IF pathArg.kind = "undefined" \/ pathArg = Str("")
        THEN httpPath = Str(DerivedPath)
        ELSE httpPath = pathArg

\* a path derived from two declared path fields, b declared before a
C14_Witness ==
    /\ pathArg.kind = "undefined"
    /\ Len(declaration.expectParams) = 2
    /\ declaration.expectParams[1].key = "b"
    /\ httpPath = Str("/test/:b/:a")

(***************************************************************************)
(* C15.  rest() leaves the three inbound objects unchanged: after a        *)
(* dispatch, whether it went on to the action or ended in a validation     *)
(* failure part-way through the loops, req.params, req.body and req.query  *)
(* hold exactly the entries they held before it.                           *)
(***************************************************************************)
C15_InboundObjectsUnchanged ==
    \A i \in Invocations :
        (front[i] = "rest" /\ pc[i] # "start") =>
            /\ req[i].params = inbound[i].params
            /\ req[i].body = inbound[i].body
            /\ req[i].query = inbound[i].query

(***************************************************************************)
(* C17.  In both fronts, when several declared fields of an invocation     *)
(* fail validation, exactly one failure is reported and it is that of the  *)
(* first failing field in the scan order (body fields, then query fields,  *)
(* then path fields, each in declaration order); no field after it is      *)
(* checked or written.                                                     *)
(***************************************************************************)
\* the positions in the scan order of the fields that fail on what arrived
FailingPositions(i) ==
    { p \in 1..Len(ScanOrder(declaration)) :
        LET f == ScanOrder(declaration)[p] IN
        FieldFails(EntryFor(declaration, f[1], f[2]), ChannelObject(i, f[1])) }

FirstFailing(i) ==
    CHOOSE p \in FailingPositions(i) : \A q \in FailingPositions(i) : p <= q

C17_FirstFailureInScanOrder ==
    \A i \in Invocations :
        ( /\ front[i] # "none"
          /\ pc[i] # "start"
          /\ front[i] = "native" => hasAction
          /\ Cardinality(FailingPositions(i)) >= 2 )
        => LET p == FirstFailing(i)
               f == ScanOrder(declaration)[p]
           IN  /\ Names400(outcome[i],
                           IF ChannelObject(i, f[1])[f[2]].kind = "undefined"
                           THEN "Missing" ELSE "Invalid",
                           f[1], f[2])
               /\ pc[i] = "done"
               /\ calls[i] = 0
               /\ responses[i] = <<>>
               /\ scanned[i] = SubSeq(ScanOrder(declaration), 1, p)
               /\ \A w \in Range(written[i]) :
                      \E q \in 1..(p - 1) :
                          ScanOrder(declaration)[q] = <<w[1], w[2]>>

(***************************************************************************)
(* C16.  For every interleaving of concurrent rest() invocations of one    *)
(* operation, each with its own inbound objects: the object each action    *)
(* call receives and the response or failure each invocation produces are  *)
(* those its own inbound objects (and its own action's result) give, and   *)
(* no step of an invocation changes the declaration or anything of another *)
(* invocation, its merged object included.                                 *)
(***************************************************************************)
\* everything the model keeps for invocation i
Local(i) ==
    [inbound |-> inbound[i], req |-> req[i], pc |-> pc[i],
     scanned |-> scanned[i], written |-> written[i], calls |-> calls[i],
     handlerArgs |-> handlerArgs[i], result |-> result[i],
     responses |-> responses[i], outcome |-> outcome[i]]

\* what an invocation has done (l, its Local) is what its own inbound objects
\* and its own action's result give
OwnInputsOnly(decl, l) ==
    LET st == RestValidate(decl, l.inbound.body, l.inbound.query,
                           l.inbound.params)
    IN  l.pc # "start" =>
          /\ l.req.params = st.params
          /\ l.scanned = st.scanned
          /\ l.written = st.written
          /\ IF st.error.kind # "none"
             THEN l.outcome = st.error /\ l.calls = 0 /\ l.responses = <<>>
             ELSE /\ l.calls = 1
                  /\ l.handlerArgs = st.params
                  /\ l.outcome \in {None, ActionError}
                  /\ l.responses \in
                       {<<>>, <<RestResponse(decl, l.result)>>}

C16_InvocationsIndependent ==
    [][ /\ declaration' = declaration
        /\ \A i \in Invocations : pc'[i] = pc[i] => Local(i)' = Local(i)
        /\ \A i \in Invocations : OwnInputsOnly(declaration', Local(i)') ]_vars

\* two invocations suspended at their action calls, each with the object its
\* own request gave, while nothing has been answered yet
C16_Witness ==
    \E i, j \in Invocations :
        /\ i # j
        /\ pc[i] = "awaiting" /\ pc[j] = "awaiting"
        /\ inbound[i] # inbound[j]
        /\ calls[i] = 1 /\ calls[j] = 1
        /\ handlerArgs[i] # handlerArgs[j]
        /\ written[i] # <<>> /\ written[j] # <<>>

(***************************************************************************)
(* C18.  The check of an object descriptor is total and rejects every      *)
(* value that is not a structured mapping: for null, undefined, a string,  *)
(* a number, a boolean and an array it returns false and raises nothing,   *)
(* whatever properties the descriptor declares, none at all included.      *)
(***************************************************************************)
C18_ObjectCheckRejectsNonMappings ==
    ( /\ verdict # "pending"
      /\ descriptor.kind = "object"
      /\ subject.kind # "object" ) => verdict = "false"

(***************************************************************************)
(* C19.  sendableVia of a composite descriptor is computed from its        *)
(* children: a union reports the channels of value0 followed by those of   *)
(* value1, so a channel is reported exactly when an alternative reports    *)
(* it; an object or an array reports the channels its property or element  *)
(* descriptors report; a leaf other than a string reports body only, a     *)
(* literal string and any-string report body, query and path ("param").    *)
(***************************************************************************)
ChannelsOf(type) == Range(sendableVia(type))

\* the descriptors an object or an array is built from
Children(type) ==
    CASE type.kind = "object" ->
           { type.properties[k].type : k \in 1..Len(type.properties) }
      [] type.kind = "array" ->
           { type.values[j] : j \in 1..Len(type.values) }
      [] type.kind = "or" -> {type.value0, type.value1}
      [] OTHER -> {}

\* what C19 says of unions and of leaves
UnionsAndLeavesReport ==
    /\ descriptor.kind = "or" =>
         /\ sendable.list = sendableVia(descriptor.value0)
                              \o sendableVia(descriptor.value1)
         /\ \A c \in {"body", "query", "param"} :
                c \in Range(sendable.list) <=>
                    \E t \in Children(descriptor) : c \in ChannelsOf(t)
    /\ descriptor.kind \in {"string", "anyString"} =>
         /\ Range(sendable.list) = {"body", "query", "param"}
         /\ Len(sendable.list) = 3
    /\ descriptor.kind \in {"number", "numberRange", "boolean", "null",
                            "undefinedType", "anyNumber", "anyBoolean", "any"}
         => sendable.list = <<"body">>

C19_CompositesReportChildrensChannels ==
    sendable.kind = "channels" =>
        /\ UnionsAndLeavesReport
        /\ (descriptor.kind \in {"object", "array"} /\ Children(descriptor) # {})
           => Range(sendable.list) =
                UNION { ChannelsOf(t) : t \in Children(descriptor) }

(***************************************************************************)
(* C19, amended.  As C19 for unions and leaves; an object and an array     *)
(* report body only, whatever their property or element descriptors        *)
(* report.                                                                 *)
(***************************************************************************)
C19_ObjectsAndArraysReportBody ==
    sendable.kind = "channels" =>
        /\ UnionsAndLeavesReport
        /\ descriptor.kind \in {"object", "array"} => sendable.list = <<"body">>

\* the channels of a union of a string and an object were read: the string's
\* three, then the object's one
C19_Witness ==
    /\ sendable.kind = "channels"
    /\ descriptor.kind = "or"
    /\ descriptor.value0.kind = "anyString"
    /\ descriptor.value1.kind = "object"
    /\ "param" \in UNION { ChannelsOf(t) : t \in Children(descriptor.value1) }
    /\ sendable.list = <<"param", "body", "query", "body">>

====
